---------------------------- MODULE Spec2Model ----------------------------
(***************************************************************************)
(* cavee: an in-memory key-value Store made durable by a transaction log.  *)
(*                                                                         *)
(* Strings are sequences of one-character strings, so that the line format *)
(* of the log (fmt.Fprintf / fmt.Sscanf) is modelled by what it does.      *)
(***************************************************************************)
EXTENDS Integers, Sequences, FiniteSets, TLC

(***************************************************************************)
(* Bounds of the model.                                                    *)
(***************************************************************************)
\* lines of a log file found at startup
MaxLines == 2
\* largest sequence number written in a log file found at startup
MaxSeq == 2
\* requests served over the whole run, each by its own goroutine
MaxRequests == 3
\* process restarts over the whole run
MaxRestarts == 1
\* failing appends over the whole run
MaxFailures == 1
\* bytes of a request body whose record is written and read back
MaxValueLen == 2

(***************************************************************************)
(* Characters and strings.                                                 *)
(***************************************************************************)
TAB == "\t"
SP == " "
CR == "\r"
QUOTE == "\""
NL == "\n"

Digits == <<"0", "1", "2", "3", "4", "5", "6", "7", "8", "9">>

DigitSet == {Digits[i] : i \in 1..10}

\* unicode.IsSpace restricted to the characters of the model
isSpace(c) == c \in {SP, TAB, CR, NL}

DigitVal(c) == (CHOOSE i \in 1..10 : Digits[i] = c) - 1

\* %d of fmt.Fprintf for a non-negative integer
RECURSIVE Dec(_)
Dec(n) == IF n < 10 THEN <<Digits[n + 1]>> ELSE Dec(n \div 10) \o <<Digits[(n % 10) + 1]>>

\* strconv.ParseUint(tok, 10, 64) of a non-empty digit string
RECURSIVE ParseUint(_)
ParseUint(tok) ==
    IF Len(tok) = 0 THEN 0
    ELSE 10 * ParseUint(SubSeq(tok, 1, Len(tok) - 1)) + DigitVal(tok[Len(tok)])

(***************************************************************************)
(* Events.                                                                 *)
(***************************************************************************)
EventTypePut == 1
EventTypeDelete == 2

\* the zero value Event{}
ZeroEvent == [Sequence |-> 0, Type |-> 0, Key |-> <<>>, Value |-> <<>>]

\* make(chan Event, 16)
QueueCap == 16

Keys == {<<"a">>, <<"b">>}
Values == {<<"x">>, <<"y">>}

(***************************************************************************)
(* The writer's line format: "%d\t%d\t%s\t\"%s\"\n".                       *)
(***************************************************************************)
Fprintf(seq, type, key, value) ==
    Dec(seq) \o <<TAB>> \o Dec(type) \o <<TAB>> \o key \o <<TAB, QUOTE>> \o value
        \o <<QUOTE, NL>>

(***************************************************************************)
(* bufio.Scanner with ScanLines: the line that starts at offset pos (one   *)
(* past the bytes consumed so far), without its newline and without one    *)
(* trailing carriage return.  A last line with no newline is a line when   *)
(* it is not empty.                                                        *)
(***************************************************************************)
LineEnd(data, pos) ==
    IF \E j \in pos..Len(data) : data[j] = NL
    THEN CHOOSE j \in pos..Len(data) : data[j] = NL /\ \A k \in pos..(j - 1) : data[k] # NL
    ELSE Len(data) + 1

dropCR(line) ==
    IF Len(line) > 0 /\ line[Len(line)] = CR THEN SubSeq(line, 1, Len(line) - 1) ELSE line

ScanHasLine(data, pos) == pos <= Len(data)

ScanText(data, pos) == dropCR(SubSeq(data, pos, LineEnd(data, pos) - 1))

ScanNextPos(data, pos) == LineEnd(data, pos) + 1

(***************************************************************************)
(* fmt.Sscanf(line, "%d\t%d\t%s\t%s", &e.Sequence, &e.Type, &e.Key,        *)
(* &e.Value).  Positions are indexes into the line; Len(line) + 1 is the   *)
(* end of the input.                                                       *)
(***************************************************************************)
\* ss.SkipSpace: the first position at or after i that holds no space
SkipSpace(s, i) ==
    CHOOSE j \in i..(Len(s) + 1) :
        /\ \A k \in i..(j - 1) : isSpace(s[k])
        /\ (j = Len(s) + 1 \/ ~isSpace(s[j]))

\* the end (exclusive) of the run of characters of set cs that starts at i
RunEnd(s, i, cs) ==
    CHOOSE j \in i..(Len(s) + 1) :
        /\ \A k \in i..(j - 1) : s[k] \in cs
        /\ (j = Len(s) + 1 \/ s[j] \notin cs)

\* the end (exclusive) of the word that starts at i (ss.token(true, notSpace))
WordEnd(s, i) ==
    CHOOSE j \in i..(Len(s) + 1) :
        /\ \A k \in i..(j - 1) : ~isSpace(s[k])
        /\ (j = Len(s) + 1 \/ isSpace(s[j]))

\* ss.advance on a "\t" of the format: the input must hold a space or end
FormatSpaceOk(s, i) == i = Len(s) + 1 \/ isSpace(s[i])

\* ss.scanUint: [ok, val, next]
scanUint(s, i) ==
    LET b == SkipSpace(s, i)
        n == RunEnd(s, b, DigitSet)
    IN  IF b > Len(s) \/ n = b
        THEN [ok |-> FALSE, val |-> 0, next |-> b]
        ELSE [ok |-> TRUE, val |-> ParseUint(SubSeq(s, b, n - 1)), next |-> n]

\* ss.scanInt: an optional sign, then digits
scanInt(s, i) ==
    LET b == SkipSpace(s, i)
        neg == b <= Len(s) /\ s[b] = "-"
        d == IF b <= Len(s) /\ s[b] \in {"+", "-"} THEN b + 1 ELSE b
        n == RunEnd(s, d, DigitSet)
    IN  IF b > Len(s) \/ n = d
        THEN [ok |-> FALSE, val |-> 0, next |-> b]
        ELSE [ok |-> TRUE,
              val |-> IF neg THEN 0 - ParseUint(SubSeq(s, d, n - 1))
                      ELSE ParseUint(SubSeq(s, d, n - 1)),
              next |-> n]

\* ss.convertString for %s: the next word
convertString(s, i) ==
    LET b == SkipSpace(s, i)
        n == WordEnd(s, b)
    IN  IF b > Len(s)
        THEN [ok |-> FALSE, val |-> <<>>, next |-> b]
        ELSE [ok |-> TRUE, val |-> SubSeq(s, b, n - 1), next |-> n]

\* [ok |-> whether Sscanf returned a nil error, e |-> the Event it filled]
Sscanf(line) ==
    LET f1 == scanUint(line, 1)
        f2 == scanInt(line, f1.next)
        f3 == convertString(line, f2.next)
        f4 == convertString(line, f3.next)
    IN  IF /\ f1.ok
           /\ FormatSpaceOk(line, f1.next)
           /\ f2.ok
           /\ FormatSpaceOk(line, f2.next)
           /\ f3.ok
           /\ FormatSpaceOk(line, f3.next)
           /\ f4.ok
        THEN [ok |-> TRUE,
              e |-> [Sequence |-> f1.val, Type |-> f2.val, Key |-> f3.val, Value |-> f4.val]]
        ELSE [ok |-> FALSE, e |-> ZeroEvent]

\* e.Value[1 : len(e.Value)-1] panics when the word is shorter than two bytes
StripPanics(v) == Len(v) < 2

StripQuotes(v) == SubSeq(v, 2, Len(v) - 1)


(***************************************************************************)
(* The Store's map (store.go).                                             *)
(***************************************************************************)
\* s.m[key] = value
mapPut(mm, key, value) ==
    [k \in (DOMAIN mm) \cup {key} |-> IF k = key THEN value ELSE mm[k]]

\* a delete that empties the map
mapDeleteAll(mm, key) == [k \in {} |-> <<>>]

\* a delete that removes nothing
mapDeleteNothing(mm, key) == mm

\* delete(s.m, key)
mapDelete(mm, key) == [k \in (DOMAIN mm) \ {key} |-> mm[k]]

EmptyMap == [k \in {} |-> <<>>]

\* history: the last mutation of each key
recordOp(lo, key, op, value) ==
    [k \in (DOMAIN lo) \cup {key} |->
        IF k = key THEN [op |-> op, value |-> value] ELSE lo[k]]

recordEvent(lo, ev) ==
    IF ev.Type = EventTypePut THEN recordOp(lo, ev.Key, "put", ev.Value)
    ELSE IF ev.Type = EventTypeDelete THEN recordOp(lo, ev.Key, "delete", <<>>)
    ELSE lo

\* a replay switch with no case for EventTypeDelete
applyEventPutOnly(mm, ev) ==
    IF ev.Type = EventTypePut THEN mapPut(mm, ev.Key, ev.Value) ELSE mm

\* the switch of the replay loop: Put, Delete, or no case at all
applyEvent(mm, ev) ==
    IF ev.Type = EventTypePut THEN mapPut(mm, ev.Key, ev.Value)
    ELSE IF ev.Type = EventTypeDelete THEN mapDelete(mm, ev.Key)
    ELSE mm

(***************************************************************************)
(* State.                                                                  *)
(***************************************************************************)
VARIABLES
    file,            \* the bytes of transaction.log (durable)
    m,               \* Store.m
    lastSequence,    \* FileTransactionLogger.lastSequence
    events,          \* FileTransactionLogger.events: the buffered intent channel
    errors,          \* FileTransactionLogger.errors: the writer's error channel
    mpc,             \* main goroutine: where it is in main / InitializeTransactionLog
    err,             \* InitializeTransactionLog's err
    channelOpen,     \* InitializeTransactionLog's channelOpen
    rpc,             \* ReadEvents goroutine: where it is
    rpos,            \* the scanner's offset into the file
    e,               \* ReadEvents' e, the event being sent on outEvents
    outErrors,       \* ReadEvents' outErrors channel (buffer of 1)
    outErrorsClosed, \* close(outErrors) has run
    outEventsClosed, \* close(outEvents) has run
    wpc,             \* the writer goroutine of Run: where it is
    we,              \* the writer goroutine's e, the intent it has taken
    pc,              \* request goroutines: where each is in its handler
    req,             \* request goroutines: the request each serves
    ret,             \* request goroutines: what Store.Get returned
    wlock,           \* Store's RWMutex: the goroutines holding it for writing
    rlock,           \* Store's RWMutex: the goroutines holding it for reading
    yielded,         \* history: the events received from outEvents, in order
    accepted,        \* history: the intents the queue accepted since Run
    lastOp,          \* history: per key, the last mutation applied to the Store
    bootLen,         \* history: the length of the file when the process started
    durable,         \* history: the records in the file when the process last ended
    restarts,        \* history: process restarts so far
    failures         \* history: failed appends so far

vars == <<file, m, lastSequence, events, errors, mpc, err, channelOpen, rpc, rpos, e,
          outErrors, outErrorsClosed, outEventsClosed, wpc, we, pc, req, ret, wlock, rlock,
          yielded, accepted, lastOp, bootLen, durable, restarts, failures>>

readerVars == <<rpc, rpos, e, outErrors, outErrorsClosed, outEventsClosed>>
requestVars == <<pc, req, ret, wlock, rlock>>
writerVars == <<wpc, we>>
historyVars == <<yielded, accepted, lastOp, bootLen, durable, restarts, failures>>

Procs == 1..MaxRequests

NoRequest == [op |-> "none", key |-> <<>>, value |-> <<>>]
NoReturn == [value |-> <<>>, err |-> "none"]
NoDurable == [sure |-> <<>>, maybe |-> <<>>]

\* the process has neither exited (log.Fatal) nor died of a runtime panic
Alive == mpc \notin {"exited", "panicked"}

(***************************************************************************)
(* Log files found at startup: every sequence of at most MaxLines lines,   *)
(* each a line the writer can have written or a damaged one.               *)
(***************************************************************************)
WrittenLines ==
    {Fprintf(s, EventTypePut, <<"a">>, v) : s \in 0..MaxSeq, v \in Values}
        \cup {Fprintf(s, EventTypePut, <<"b">>, <<"x">>) : s \in 0..MaxSeq}
        \cup {Fprintf(s, EventTypeDelete, <<"a">>, <<>>) : s \in 0..MaxSeq}

DamagedLines ==
    { <<"1", TAB, "1", TAB, "a", NL>>,       \* the value field is missing
      <<"z", TAB, "1", TAB, "a", TAB, QUOTE, "x", QUOTE, NL>>,  \* no number
      <<"2", TAB, "1", TAB, "a", TAB, QUOTE, NL>> }  \* a value of one byte

LinePool == WrittenLines \cup DamagedLines

RECURSIVE Concat(_)
Concat(ls) == IF Len(ls) = 0 THEN <<>> ELSE Head(ls) \o Concat(Tail(ls))

StartupFiles ==
    {Concat(ls) : ls \in UNION {[1..n -> LinePool] : n \in 0..MaxLines}}

(***************************************************************************)
(* Initial state: the process has been started and main has built the      *)
(* Store (NewStore); the logger does not exist yet.                        *)
(***************************************************************************)
\* a constructor that starts the writer goroutine itself
writerAtStartRunning == "range"

\* &FileTransactionLogger{file: file}: no channels and no writer goroutine
\* until Run is called
writerAtStart == "none"

Boot ==
    /\ m = EmptyMap
    /\ lastSequence = 0
    /\ events = <<>>
    /\ errors = <<>>
    /\ mpc = "new"
    /\ err = "nil"
    /\ channelOpen = TRUE
    /\ rpc = "none"
    /\ rpos = 1
    /\ e = ZeroEvent
    /\ outErrors = <<>>
    /\ outErrorsClosed = FALSE
    /\ outEventsClosed = FALSE
    /\ wpc = writerAtStart
    /\ we = ZeroEvent
    /\ wlock = {}
    /\ rlock = {}
    /\ yielded = <<>>
    /\ accepted = <<>>
    /\ lastOp = EmptyMap

Fresh ==
    /\ Boot
    /\ pc = [p \in Procs |-> "idle"]
    /\ req = [p \in Procs |-> NoRequest]
    /\ ret = [p \in Procs |-> NoReturn]
    /\ bootLen = Len(file)
    /\ durable = NoDurable
    /\ restarts = 0
    /\ failures = 0

Init == file = <<>> /\ Fresh

InitReplay == file \in StartupFiles /\ Fresh

(***************************************************************************)
(* InitializeTransactionLog.                                               *)
(***************************************************************************)
\* NewFileTransactionLogger succeeds, then ReadEvents starts its goroutine
OpenLog ==
    /\ mpc = "new"
    /\ mpc' = "replay"
    /\ rpc' = "scan"
    /\ UNCHANGED <<file, m, lastSequence, events, errors, err, channelOpen, rpos, e,
                   outErrors, outErrorsClosed, outEventsClosed, writerVars, requestVars,
                   historyVars>>

\* os.OpenFile fails: InitializeTransactionLog returns the error, main exits
OpenFail ==
    /\ mpc = "new"
    /\ mpc' = "exited"
    /\ err' = "open"
    /\ UNCHANGED <<file, m, lastSequence, events, errors, channelOpen, readerVars, writerVars,
                   requestVars, historyVars>>

\* a check that lets a repeated sequence number pass
outOfSequenceStrict(last, seq) == last > seq

\* the reader's check: l.lastSequence >= e.Sequence
outOfSequence(last, seq) == last >= seq

\* the loop condition: channelOpen && err == nil
loopGoesOn(open, er) == open /\ er = "nil"

\* select case err, channelOpen = <-errors
ReplayRecvError ==
    /\ mpc = "replay"
    /\ outErrors # <<>> \/ outErrorsClosed
    /\ IF outErrors # <<>>
       THEN /\ err' = Head(outErrors)
            /\ channelOpen' = TRUE
            /\ outErrors' = Tail(outErrors)
       ELSE /\ err' = "nil"
            /\ channelOpen' = FALSE
            /\ UNCHANGED outErrors
    /\ mpc' = IF loopGoesOn(channelOpen', err') THEN "replay" ELSE "run"
    /\ UNCHANGED <<file, m, lastSequence, events, errors, rpc, rpos, e, outErrorsClosed,
                   outEventsClosed, writerVars, requestVars, historyVars>>

\* select case event, channelOpen = <-events, and the switch on event.Type
ReplayRecvEvent ==
    /\ mpc = "replay"
    /\ rpc = "send" \/ outEventsClosed
    /\ IF rpc = "send"
       THEN /\ m' = applyEvent(m, e)
            /\ channelOpen' = TRUE
            /\ rpc' = "scan"
            /\ yielded' = Append(yielded, e)
            /\ lastOp' = recordEvent(lastOp, e)
       ELSE \* a closed channel gives the zero Event, which no case matches
            /\ m' = applyEvent(m, ZeroEvent)
            /\ channelOpen' = FALSE
            /\ UNCHANGED <<rpc, yielded, lastOp>>
    \* store.Put and store.Delete return nil; no other case assigns err
    /\ err' = IF rpc = "send" /\ e.Type \in {EventTypePut, EventTypeDelete} THEN "nil" ELSE err
    /\ mpc' = IF loopGoesOn(channelOpen', err') THEN "replay" ELSE "run"
    /\ UNCHANGED <<file, lastSequence, events, errors, rpos, e, outErrors,
                   outErrorsClosed, outEventsClosed, writerVars, requestVars, accepted,
                   bootLen, durable, restarts, failures>>

\* transact.Run(): the two channels are made and the writer goroutine starts
Run ==
    /\ mpc = "run"
    /\ mpc' = "ret"
    /\ events' = <<>>
    /\ errors' = <<>>
    /\ wpc' = "range"
    /\ UNCHANGED <<file, m, lastSequence, err, channelOpen, readerVars, we, requestVars,
                   historyVars>>

\* a main that serves whatever InitializeTransactionLog returned
afterInitServeAnyway(er) == "serving"

\* main: log.Fatal(err) on an error, the HTTP server otherwise
afterInit(er) == IF er = "nil" THEN "serving" ELSE "exited"

\* return err; main calls log.Fatal on an error and serves otherwise
InitReturn ==
    /\ mpc = "ret"
    /\ mpc' = afterInit(err)
    /\ UNCHANGED <<file, m, lastSequence, events, errors, err, channelOpen, readerVars,
                   writerVars, requestVars, historyVars>>

(***************************************************************************)
(* The goroutine of ReadEvents.                                            *)
(***************************************************************************)
\* one turn of "for scanner.Scan()", up to the send on outEvents
ReaderScan ==
    /\ Alive
    /\ rpc = "scan"
    /\ IF ~ScanHasLine(file, rpos)
       THEN \* scanner.Err() is nil at the end of the file
            /\ rpc' = "closeErrors"
            /\ UNCHANGED <<mpc, lastSequence, rpos, e, outErrors>>
       ELSE LET r == Sscanf(ScanText(file, rpos)) IN
            IF ~r.ok
            THEN /\ outErrors' = Append(outErrors, "parse")
                 /\ rpc' = "closeErrors"
                 /\ UNCHANGED <<mpc, lastSequence, rpos, e>>
            ELSE IF StripPanics(r.e.Value)
            THEN \* slice bounds out of range: the runtime ends the process
                 /\ mpc' = "panicked"
                 /\ UNCHANGED <<rpc, lastSequence, rpos, e, outErrors>>
            ELSE IF outOfSequence(lastSequence, r.e.Sequence)
            THEN /\ outErrors' = Append(outErrors, "sequence")
                 /\ rpc' = "closeErrors"
                 /\ UNCHANGED <<mpc, lastSequence, rpos, e>>
            ELSE /\ lastSequence' = r.e.Sequence
                 /\ e' = [r.e EXCEPT !.Value = StripQuotes(r.e.Value)]
                 /\ rpos' = ScanNextPos(file, rpos)
                 /\ rpc' = "send"
                 /\ UNCHANGED <<mpc, outErrors>>
    /\ UNCHANGED <<file, m, events, errors, err, channelOpen, outErrorsClosed,
                   outEventsClosed, writerVars, requestVars, historyVars>>

\* defer close(outErrors), the first deferred call to run
ReaderCloseErrors ==
    /\ Alive
    /\ rpc = "closeErrors"
    /\ outErrorsClosed' = TRUE
    /\ rpc' = "closeEvents"
    /\ UNCHANGED <<file, m, lastSequence, events, errors, mpc, err, channelOpen, rpos, e,
                   outErrors, outEventsClosed, writerVars, requestVars, historyVars>>

\* defer close(outEvents), the last deferred call to run
ReaderCloseEvents ==
    /\ Alive
    /\ rpc = "closeEvents"
    /\ outEventsClosed' = TRUE
    /\ rpc' = "done"
    /\ UNCHANGED <<file, m, lastSequence, events, errors, mpc, err, channelOpen, rpos, e,
                   outErrors, outErrorsClosed, writerVars, requestVars, historyVars>>


(***************************************************************************)
(* Store.Put, Store.Get and Store.Delete, called by the request handlers.  *)
(***************************************************************************)
\* a Lock that does not wait for another writer
canLockBesideWriter(w, r) == r = {}

\* sync.RWMutex: Lock is granted when nobody holds the mutex
canLock(w, r) == w = {} /\ r = {}

\* an RLock that does not wait for the writer
canRLockBesideWriter(w, r) == TRUE

\* sync.RWMutex: RLock is granted when no writer holds the mutex
canRLock(w, r) == w = {}

\* another goroutine is inside a critical section of the Store
Racing(p) == (wlock \cup rlock) \ {p} # {}

\* value, exists := s.m[key], and the two returns of Get
storeGet(mm, key) ==
    IF key \in DOMAIN mm THEN [value |-> mm[key], err |-> "nil"]
    ELSE [value |-> <<>>, err |-> "ErrNoSuchKey"]

\* requests are numbered in the order they arrive: p is the next one
NextArrival(p) == pc[p] = "idle" /\ \A q \in 1..(p - 1) : pc[q] # "idle"

\* the handler reads the request: PUT /v1/key/{key} with a body
PutHandler(p) ==
    /\ mpc = "serving"
    /\ NextArrival(p)
    /\ \E k \in Keys, v \in Values :
           req' = [req EXCEPT ![p] = [op |-> "put", key |-> k, value |-> v]]
    /\ pc' = [pc EXCEPT ![p] = "lock"]
    /\ UNCHANGED <<file, m, lastSequence, events, errors, mpc, err, channelOpen,
                   readerVars, writerVars, ret, wlock, rlock, historyVars>>

\* DELETE /v1/key/{key}
DeleteHandler(p) ==
    /\ mpc = "serving"
    /\ NextArrival(p)
    /\ \E k \in Keys :
           req' = [req EXCEPT ![p] = [op |-> "delete", key |-> k, value |-> <<>>]]
    /\ pc' = [pc EXCEPT ![p] = "lock"]
    /\ UNCHANGED <<file, m, lastSequence, events, errors, mpc, err, channelOpen,
                   readerVars, writerVars, ret, wlock, rlock, historyVars>>

\* GET /v1/key/{key}
GetHandler(p) ==
    /\ mpc = "serving"
    /\ NextArrival(p)
    /\ \E k \in Keys :
           req' = [req EXCEPT ![p] = [op |-> "get", key |-> k, value |-> <<>>]]
    /\ pc' = [pc EXCEPT ![p] = "rlock"]
    /\ UNCHANGED <<file, m, lastSequence, events, errors, mpc, err, channelOpen,
                   readerVars, writerVars, ret, wlock, rlock, historyVars>>

\* s.Lock() in Put and Delete
StoreLock(p) ==
    /\ Alive
    /\ pc[p] = "lock"
    /\ canLock(wlock, rlock)
    /\ wlock' = wlock \cup {p}
    /\ pc' = [pc EXCEPT ![p] = "locked"]
    /\ UNCHANGED <<file, m, lastSequence, events, errors, mpc, err, channelOpen,
                   readerVars, writerVars, req, ret, rlock, historyVars>>

\* s.m[key] = value or delete(s.m, key), then s.Unlock() and return nil.
\* A map write that runs while another goroutine is inside the map is a
\* data race: the write may be lost, or the runtime may end the process.
StoreWrite(p) ==
    /\ Alive
    /\ pc[p] = "locked"
    /\ LET written == IF req[p].op = "put" THEN mapPut(m, req[p].key, req[p].value)
                      ELSE mapDelete(m, req[p].key)
       IN  \E out \in (IF Racing(p) THEN {"written", "lost", "fatal"} ELSE {"written"}) :
               /\ m' = IF out = "written" THEN written ELSE m
               /\ mpc' = IF out = "fatal" THEN "panicked" ELSE mpc
    /\ lastOp' = recordOp(lastOp, req[p].key, req[p].op, req[p].value)
    /\ wlock' = wlock \ {p}
    /\ pc' = [pc EXCEPT ![p] = "stored"]
    /\ UNCHANGED <<file, lastSequence, events, errors, err, channelOpen, readerVars,
                   writerVars, req, ret, rlock, yielded, accepted, bootLen, durable,
                   restarts,
                   failures>>

\* s.RLock() in Get
StoreRLock(p) ==
    /\ Alive
    /\ pc[p] = "rlock"
    /\ canRLock(wlock, rlock)
    /\ rlock' = rlock \cup {p}
    /\ pc' = [pc EXCEPT ![p] = "rlocked"]
    /\ UNCHANGED <<file, m, lastSequence, events, errors, mpc, err, channelOpen,
                   readerVars, writerVars, req, ret, wlock, historyVars>>

\* value, exists := s.m[key], then s.RUnlock() and the return.
\* A map read that runs while a writer is inside the map is a data race.
StoreRead(p) ==
    /\ Alive
    /\ pc[p] = "rlocked"
    /\ \E out \in (IF wlock # {} THEN {"read", "fatal"} ELSE {"read"}) :
           mpc' = IF out = "fatal" THEN "panicked" ELSE mpc
    /\ ret' = [ret EXCEPT ![p] = storeGet(m, req[p].key)]
    /\ rlock' = rlock \ {p}
    /\ pc' = [pc EXCEPT ![p] = "stored"]
    /\ UNCHANGED <<file, m, lastSequence, events, errors, err, channelOpen, readerVars,
                   writerVars, req, wlock, historyVars>>

(***************************************************************************)
(* The rest of the handlers, and the logger's WritePut and WriteDelete.    *)
(***************************************************************************)
\* the Event WritePut and WriteDelete build from the request
intentOf(r) ==
    [Sequence |-> 0,
     Type |-> IF r.op = "put" THEN EventTypePut ELSE EventTypeDelete,
     Key |-> r.key,
     Value |-> IF r.op = "put" THEN r.value ELSE <<>>]

\* a channel with no limit
canSendUnbounded(q) == TRUE

\* l.events <- e: the send is taken when the buffer has room
canSend(q) == Len(q) < QueueCap

\* a handler that logs its intent before it calls the Store
enqueueBeforeStore == "lock"

\* where a handler stands when it calls WritePut / WriteDelete: past the
\* "err != nil" return that follows store.Put / store.Delete
enqueueAt == "stored"

\* transact.WritePut(key, value), then the 201 response
WritePut(p) ==
    /\ Alive
    /\ pc[p] = enqueueAt
    /\ req[p].op = "put"
    /\ wpc # "none"
    /\ canSend(events)
    /\ events' = Append(events, intentOf(req[p]))
    /\ accepted' = Append(accepted, intentOf(req[p]))
    /\ pc' = [pc EXCEPT ![p] = "done"]
    /\ UNCHANGED <<file, m, lastSequence, errors, mpc, err, channelOpen, readerVars,
                   writerVars, req, ret, wlock, rlock, yielded, lastOp, bootLen, durable,
                   restarts,
                   failures>>

\* transact.WriteDelete(key), then the 204 response
WriteDelete(p) ==
    /\ Alive
    /\ pc[p] = enqueueAt
    /\ req[p].op = "delete"
    /\ wpc # "none"
    /\ canSend(events)
    /\ events' = Append(events, intentOf(req[p]))
    /\ accepted' = Append(accepted, intentOf(req[p]))
    /\ pc' = [pc EXCEPT ![p] = "done"]
    /\ UNCHANGED <<file, m, lastSequence, errors, mpc, err, channelOpen, readerVars,
                   writerVars, req, ret, wlock, rlock, yielded, lastOp, bootLen, durable,
                   restarts,
                   failures>>

\* GetHandler writes the value, or 404 for ErrNoSuchKey
GetRespond(p) ==
    /\ Alive
    /\ pc[p] = "stored"
    /\ req[p].op = "get"
    /\ pc' = [pc EXCEPT ![p] = "done"]
    /\ UNCHANGED <<file, m, lastSequence, events, errors, mpc, err, channelOpen,
                   readerVars, writerVars, req, ret, wlock, rlock, historyVars>>

(***************************************************************************)
(* The writer goroutine started by Run.                                    *)
(***************************************************************************)
\* a channel that hands out its newest element
recvNewest(q) == q[Len(q)]

\* the element "for e := range events" takes from the channel
recvFrom(q) == Head(q)

\* a writer that goes on with the loop after a failed Fprintf
afterWriteErrorGoOn == "range"

\* where the goroutine goes after a failed Fprintf: errors <- err; return
afterWriteError == "stopped"

\* for e := range events, and l.lastSequence++
WriterRecv ==
    /\ Alive
    /\ wpc = "range"
    /\ events # <<>>
    /\ we' = recvFrom(events)
    /\ events' = Tail(events)
    /\ lastSequence' = lastSequence + 1
    /\ wpc' = "write"
    /\ UNCHANGED <<file, m, errors, mpc, err, channelOpen, readerVars, requestVars,
                   historyVars>>

\* a writer that returns after its first record
afterWriteReturn == "stopped"

\* where the goroutine goes after a Fprintf with no error: the next turn of
\* "for e := range events"
afterWrite == "range"

\* fmt.Fprintf(l.file, ...) writes the whole line (the file is opened O_APPEND)
WriterAppend ==
    /\ Alive
    /\ wpc = "write"
    /\ file' = file \o Fprintf(lastSequence, we.Type, we.Key, we.Value)
    /\ wpc' = afterWrite
    /\ UNCHANGED <<m, lastSequence, events, errors, mpc, err, channelOpen, readerVars,
                   we, requestVars, historyVars>>

\* fmt.Fprintf returns an error after writing only part of the line (maybe
\* nothing): the error goes to the errors channel and the goroutine returns
WriterAppendFail ==
    /\ Alive
    /\ wpc = "write"
    /\ failures < MaxFailures
    /\ LET line == Fprintf(lastSequence, we.Type, we.Key, we.Value) IN
       \E n \in 0..(Len(line) - 1) : file' = file \o SubSeq(line, 1, n)
    /\ errors' = Append(errors, "write")
    /\ wpc' = afterWriteError
    /\ failures' = failures + 1
    /\ UNCHANGED <<m, lastSequence, events, mpc, err, channelOpen, readerVars, we,
                   requestVars, yielded, accepted, lastOp, bootLen, durable,
                   restarts>>

(***************************************************************************)
(* History: what the file holds of the intents, kept for the statements    *)
(* about restarts.                                                         *)
(***************************************************************************)
\* the lines bufio.Scanner gives for the file, in order
RECURSIVE linesFrom(_, _)
linesFrom(data, pos) ==
    IF ~ScanHasLine(data, pos) THEN <<>>
    ELSE <<ScanText(data, pos)>> \o linesFrom(data, ScanNextPos(data, pos))

LinesOf(data) == linesFrom(data, 1)

\* the bytes appended since the process started
Appended == SubSeq(file, bootLen + 1, Len(file))

\* the lines of data that end with a newline
CompleteLines(data) ==
    LET ls == LinesOf(data) IN
    IF Len(data) = 0 \/ data[Len(data)] = NL THEN ls ELSE SubSeq(ls, 1, Len(ls) - 1)

\* the records in the file when the process ends: those replay yielded at
\* its start, then one accepted intent per line appended since; "maybe" is
\* the intent whose append failed part-way, when there is one
durableAtExit ==
    LET k == Len(CompleteLines(Appended)) IN
    [sure |-> yielded \o SubSeq(accepted, 1, k),
     maybe |-> IF wpc = "stopped" /\ k < Len(accepted) THEN <<accepted[k + 1]>> ELSE <<>>]

(***************************************************************************)
(* The process ends (a crash, a kill, or the exit of main) and is started  *)
(* again: only the file survives.  Requests in flight die with it.         *)
(***************************************************************************)
Restart ==
    /\ mpc # "new"
    /\ restarts < MaxRestarts
    /\ m' = EmptyMap
    /\ lastSequence' = 0
    /\ events' = <<>>
    /\ errors' = <<>>
    /\ mpc' = "new"
    /\ err' = "nil"
    /\ channelOpen' = TRUE
    /\ rpc' = "none"
    /\ rpos' = 1
    /\ e' = ZeroEvent
    /\ outErrors' = <<>>
    /\ outErrorsClosed' = FALSE
    /\ outEventsClosed' = FALSE
    /\ wpc' = writerAtStart
    /\ we' = ZeroEvent
    /\ wlock' = {}
    /\ rlock' = {}
    /\ yielded' = <<>>
    /\ accepted' = <<>>
    /\ lastOp' = EmptyMap
    /\ pc' = [p \in Procs |-> IF pc[p] = "idle" THEN "idle" ELSE "gone"]
    /\ req' = [p \in Procs |-> NoRequest]
    /\ ret' = [p \in Procs |-> NoReturn]
    /\ bootLen' = Len(file)
    /\ durable' = durableAtExit
    /\ restarts' = restarts + 1
    /\ UNCHANGED <<file, failures>>

Next ==
    \/ OpenLog
    \/ OpenFail
    \/ ReplayRecvError
    \/ ReplayRecvEvent
    \/ Run
    \/ InitReturn
    \/ ReaderScan
    \/ ReaderCloseErrors
    \/ ReaderCloseEvents
    \/ \E p \in Procs : PutHandler(p)
    \/ \E p \in Procs : DeleteHandler(p)
    \/ \E p \in Procs : StoreLock(p)
    \/ \E p \in Procs : StoreWrite(p)
    \/ \E p \in Procs : WritePut(p)
    \/ \E p \in Procs : WriteDelete(p)
    \/ WriterRecv
    \/ WriterAppend
    \/ WriterAppendFail
    \/ Restart

(***************************************************************************)
(* Spec: the whole life of the log, from an empty file: startups with      *)
(* replay, mutating requests, the writer, failing appends and restarts.    *)
(* GET requests change neither the Store nor the log; SpecStore has them.  *)
(***************************************************************************)
Spec == Init /\ [][Next]_vars

(***************************************************************************)
(* SpecStore: the request goroutines after a clean start on an empty log,  *)
(* with all three kinds of request.  The writer goroutine shares no state  *)
(* with the Store and is left to Spec; the queue of 16 takes every intent. *)
(***************************************************************************)
InitStore ==
    /\ file = <<>>
    /\ m = EmptyMap
    /\ lastSequence = 0
    /\ events = <<>>
    /\ errors = <<>>
    /\ mpc = "serving"
    /\ err = "nil"
    /\ channelOpen = FALSE
    /\ rpc = "done"
    /\ rpos = 1
    /\ e = ZeroEvent
    /\ outErrors = <<>>
    /\ outErrorsClosed = TRUE
    /\ outEventsClosed = TRUE
    /\ wpc = "range"
    /\ we = ZeroEvent
    /\ wlock = {}
    /\ rlock = {}
    /\ yielded = <<>>
    /\ accepted = <<>>
    /\ lastOp = EmptyMap
    /\ pc = [p \in Procs |-> "idle"]
    /\ req = [p \in Procs |-> NoRequest]
    /\ ret = [p \in Procs |-> NoReturn]
    /\ bootLen = 0
    /\ durable = NoDurable
    /\ restarts = 0
    /\ failures = 0

NextStore ==
    \/ \E p \in Procs : PutHandler(p)
    \/ \E p \in Procs : DeleteHandler(p)
    \/ \E p \in Procs : GetHandler(p)
    \/ \E p \in Procs : StoreLock(p)
    \/ \E p \in Procs : StoreWrite(p)
    \/ \E p \in Procs : StoreRLock(p)
    \/ \E p \in Procs : StoreRead(p)
    \/ \E p \in Procs : WritePut(p)
    \/ \E p \in Procs : WriteDelete(p)
    \/ \E p \in Procs : GetRespond(p)

SpecStore == InitStore /\ [][NextStore]_vars

(***************************************************************************)
(* SpecReplay: one startup on a log file found on disk, well-formed or     *)
(* damaged.                                                                *)
(***************************************************************************)
NextReplay ==
    \/ OpenLog
    \/ OpenFail
    \/ ReplayRecvError
    \/ ReplayRecvEvent
    \/ Run
    \/ InitReturn
    \/ ReaderScan
    \/ ReaderCloseErrors
    \/ ReaderCloseEvents

SpecReplay == InitReplay /\ [][NextReplay]_vars

(***************************************************************************)
(* SpecWriter: mutating requests and the writer goroutine after a clean    *)
(* start on an empty log, with no failing append and no restart.  The Go   *)
(* scheduler runs a goroutine that can run: the writer goroutine's two     *)
(* steps are weakly fair.  Requests may come or not.                       *)
(***************************************************************************)
NextWriter ==
    \/ \E p \in Procs : PutHandler(p)
    \/ \E p \in Procs : DeleteHandler(p)
    \/ \E p \in Procs : StoreLock(p)
    \/ \E p \in Procs : StoreWrite(p)
    \/ \E p \in Procs : WritePut(p)
    \/ \E p \in Procs : WriteDelete(p)
    \/ WriterRecv
    \/ WriterAppend

SpecWriter ==
    InitStore /\ [][NextWriter]_vars /\ WF_vars(WriterRecv) /\ WF_vars(WriterAppend)

(***************************************************************************)
(* SpecQueue: the intent queue near its capacity.  The process has served  *)
(* QueueCap - 2 PUT requests whose intents the writer goroutine has not    *)
(* taken yet (it has not been scheduled since Run); more requests come.    *)
(***************************************************************************)
Backlog ==
    [i \in 1..(QueueCap - 2) |->
        intentOf([op |-> "put", key |-> <<"a">>, value |-> <<"x">>])]

\* serving after a clean start on an empty log, with the intents q pending
ServingWith(q) ==
    /\ file = <<>>
    /\ m = mapPut(EmptyMap, <<"a">>, <<"x">>)
    /\ lastOp = recordOp(EmptyMap, <<"a">>, "put", <<"x">>)
    /\ events = q
    /\ accepted = q
    /\ lastSequence = 0
    /\ errors = <<>>
    /\ mpc = "serving"
    /\ err = "nil"
    /\ channelOpen = FALSE
    /\ rpc = "done"
    /\ rpos = 1
    /\ e = ZeroEvent
    /\ outErrors = <<>>
    /\ outErrorsClosed = TRUE
    /\ outEventsClosed = TRUE
    /\ wpc = "range"
    /\ we = ZeroEvent
    /\ wlock = {}
    /\ rlock = {}
    /\ yielded = <<>>
    /\ pc = [p \in Procs |-> "idle"]
    /\ req = [p \in Procs |-> NoRequest]
    /\ ret = [p \in Procs |-> NoReturn]
    /\ bootLen = 0
    /\ durable = NoDurable
    /\ restarts = 0
    /\ failures = 0

InitQueue == ServingWith(Backlog)

SpecQueue == InitQueue /\ [][NextWriter]_vars

(***************************************************************************)
(* SpecStopped: the same with one more intent pending, and an append that  *)
(* may fail: the writer goroutine stops and nobody takes from the queue.   *)
(***************************************************************************)
InitStopped == ServingWith(Append(Backlog, Head(Backlog)))

NextStopped ==
    \/ NextWriter
    \/ WriterAppendFail

SpecStopped == InitStopped /\ [][NextStopped]_vars

(***************************************************************************)
(* SpecCodec: one mutating request whose key and body hold any bytes the   *)
(* service can receive (r.PathValue and io.ReadAll put no limit on them),  *)
(* from the return of its Store call to the append of its record.          *)
(***************************************************************************)
\* the bytes a key or a body is made of here
CodecAlphabet == {"x", SP, TAB, QUOTE, NL}

CodecValues == UNION {[1..n -> CodecAlphabet] : n \in 0..MaxValueLen}

CodecKeys == Keys \cup {<<"a", SP, "b">>}

CodecRequests ==
    {[op |-> "put", key |-> k, value |-> v] : k \in CodecKeys, v \in CodecValues}
        \cup {[op |-> "delete", key |-> k, value |-> <<>>] : k \in CodecKeys}

\* serving after a clean start on an empty log; request 1 has just come
\* back from store.Put / store.Delete
InitCodec ==
    /\ file = <<>>
    /\ req \in {[p \in Procs |-> IF p = 1 THEN r ELSE NoRequest] : r \in CodecRequests}
    /\ m = (IF req[1].op = "put" THEN mapPut(EmptyMap, req[1].key, req[1].value)
            ELSE EmptyMap)
    /\ lastOp = recordOp(EmptyMap, req[1].key, req[1].op, req[1].value)
    /\ pc = [p \in Procs |-> IF p = 1 THEN "stored" ELSE "idle"]
    /\ ret = [p \in Procs |-> NoReturn]
    /\ lastSequence = 0
    /\ events = <<>>
    /\ errors = <<>>
    /\ mpc = "serving"
    /\ err = "nil"
    /\ channelOpen = FALSE
    /\ rpc = "done"
    /\ rpos = 1
    /\ e = ZeroEvent
    /\ outErrors = <<>>
    /\ outErrorsClosed = TRUE
    /\ outEventsClosed = TRUE
    /\ wpc = "range"
    /\ we = ZeroEvent
    /\ wlock = {}
    /\ rlock = {}
    /\ yielded = <<>>
    /\ accepted = <<>>
    /\ bootLen = 0
    /\ durable = NoDurable
    /\ restarts = 0
    /\ failures = 0

NextCodec ==
    \/ \E p \in Procs : WritePut(p)
    \/ \E p \in Procs : WriteDelete(p)
    \/ WriterRecv
    \/ WriterAppend

SpecCodec == InitCodec /\ [][NextCodec]_vars


(***************************************************************************)
(* Reading a log file as a whole, for the statements below.                *)
(***************************************************************************)
\* the line decodes: Sscanf returns no error and the quotes can be cut off
Decodes(line) == Sscanf(line).ok /\ ~StripPanics(Sscanf(line).e.Value)

\* the Event a decodable line stands for
DecodeLine(line) ==
    LET r == Sscanf(line) IN [r.e EXCEPT !.Value = StripQuotes(r.e.Value)]

SeqOfLine(line) == Sscanf(line).e.Sequence

\* every line decodes and the sequence numbers increase strictly from above 0
WellFormed(data) ==
    LET ls == LinesOf(data) IN
    /\ \A i \in 1..Len(ls) : Decodes(ls[i])
    /\ \A i \in 1..Len(ls) :
           SeqOfLine(ls[i]) > (IF i = 1 THEN 0 ELSE SeqOfLine(ls[i - 1]))

\* some line fails to decode, or does not exceed the line before it
HasBadLine(data) ==
    LET ls == LinesOf(data) IN
    \E i \in 1..Len(ls) :
        \/ ~Sscanf(ls[i]).ok
        \/ /\ i > 1
           /\ \A j \in 1..i : Decodes(ls[j])
           /\ SeqOfLine(ls[i]) <= SeqOfLine(ls[i - 1])

\* the mapping a sequence of Put/Delete events leaves: each key whose last
\* event is a Put, with that Put's value
LastOn(evs, k) ==
    LET S == {i \in 1..Len(evs) :
                  evs[i].Key = k /\ evs[i].Type \in {EventTypePut, EventTypeDelete}}
    IN  IF S = {} THEN 0 ELSE CHOOSE i \in S : \A j \in S : j <= i

MappingOf(evs) ==
    LET ks == {k \in {evs[i].Key : i \in 1..Len(evs)} :
                   LastOn(evs, k) # 0 /\ evs[LastOn(evs, k)].Type = EventTypePut}
    IN  [k \in ks |-> evs[LastOn(evs, k)].Value]

\* the reader has sent (or main has received) the error x
Emitted(x) == (\E i \in 1..Len(outErrors) : outErrors[i] = x) \/ err = x

ReaderEnded == rpc \in {"closeErrors", "closeEvents", "done"}

\* InitializeTransactionLog has run to its return statement
InitReturned == mpc \in {"ret", "serving", "exited"} /\ rpc # "none"

(***************************************************************************)
(* C1: if the log file holds a line that fails to decode, or whose         *)
(* sequence number does not exceed the previous line's, then               *)
(* InitializeTransactionLog returns a non-nil error in every interleaving  *)
(* of the reader goroutine and the replay loop.                            *)
(***************************************************************************)
C1_ReaderErrorNeverLost == InitReturned /\ HasBadLine(file) => err # "nil"

(***************************************************************************)
(* C2: for a well-formed log file, InitializeTransactionLog returns no     *)
(* error, and the Store holds what applying the file's records in file     *)
(* order to an empty map gives; every record is applied once, in order.    *)
(***************************************************************************)
C2_ReplayCorrect ==
    WellFormed(file) /\ rpc # "none" =>
        /\ mpc \notin {"exited", "panicked"}
        /\ InitReturned =>
               /\ err = "nil"
               /\ yielded = [i \in 1..Len(LinesOf(file)) |-> DecodeLine(LinesOf(file)[i])]
               /\ m = MappingOf(yielded)

C2_Witness ==
    /\ mpc = "serving"
    /\ WellFormed(file)
    /\ Len(yielded) = 2
    /\ yielded[1].Type = EventTypePut
    /\ yielded[2].Type = EventTypePut
    /\ yielded[2].Key = yielded[1].Key
    /\ m = mapPut(EmptyMap, <<"a">>, <<"y">>)

(***************************************************************************)
(* C6: the reader starts from watermark 0 and yields an event only if its  *)
(* sequence exceeds that of every event yielded before; at the first line  *)
(* whose sequence is <= the watermark it emits the out-of-sequence error   *)
(* and ends, yielding neither that line nor a later one.                   *)
(***************************************************************************)
C6_ReaderMonotonic ==
    LET ls == LinesOf(file)
        n == Len(yielded)
    IN  /\ n <= Len(ls)
        /\ \A i \in 1..n : Decodes(ls[i]) /\ yielded[i] = DecodeLine(ls[i])
        /\ \A i \in 1..n :
               yielded[i].Sequence > (IF i = 1 THEN 0 ELSE yielded[i - 1].Sequence)
        /\ \A i \in 1..Len(ls) :
               /\ \A j \in 1..i : Decodes(ls[j])
               /\ \E j \in 0..(i - 1) :
                      SeqOfLine(ls[i]) <= (IF j = 0 THEN 0 ELSE SeqOfLine(ls[j]))
               => /\ n < i
                  /\ rpc = "done" => Emitted("sequence")

C6_Witness ==
    /\ rpc = "done"
    /\ Len(LinesOf(file)) = 2
    /\ Len(yielded) = 1
    /\ Decodes(LinesOf(file)[2])
    /\ SeqOfLine(LinesOf(file)[2]) = yielded[1].Sequence
    /\ Emitted("sequence")


(***************************************************************************)
(* C3: with concurrent PutHandler/DeleteHandler requests and no I/O        *)
(* failure, once all handlers have returned and the intent queue is        *)
(* drained, replaying the log file into an empty Store gives exactly the   *)
(* mapping of the live Store.                                              *)
(***************************************************************************)
EventsOf(data) == [i \in 1..Len(LinesOf(data)) |-> DecodeLine(LinesOf(data)[i])]

Quiesced ==
    /\ mpc = "serving"
    /\ \A p \in Procs : pc[p] \in {"idle", "done", "gone"}
    /\ events = <<>>
    /\ wpc = "range"

C3_LogReplaysToStore ==
    Quiesced /\ failures = 0 => WellFormed(file) /\ MappingOf(EventsOf(file)) = m

(***************************************************************************)
(* C4: at every moment after Run, the records appended to the file since   *)
(* startup are, in order and with the same kind, key and value, a prefix   *)
(* of the intents in the order the queue accepted them; without a write    *)
(* error none is skipped.                                                  *)
(***************************************************************************)
SameIntent(ev, intent) ==
    ev.Type = intent.Type /\ ev.Key = intent.Key /\ ev.Value = intent.Value

C4_AppendsFollowQueueOrder ==
    wpc # "none" =>
        LET recs == CompleteLines(Appended) IN
        /\ bootLen <= Len(file)
        /\ Len(recs) <= Len(accepted)
        /\ \A i \in 1..Len(recs) :
               Decodes(recs[i]) /\ SameIntent(DecodeLine(recs[i]), accepted[i])
        /\ wpc = "range" /\ events = <<>> => Len(recs) = Len(accepted)

C4_Witness ==
    /\ wpc = "write"
    /\ Len(accepted) = 3
    /\ Len(CompleteLines(Appended)) = 1
    /\ accepted[1] # accepted[2]
    /\ accepted[2] # accepted[3]
    /\ \E p \in Procs : pc[p] = "done"

(***************************************************************************)
(* C5: over startups with a successful replay, live appends and restarts,  *)
(* every record the writer appends carries the sequence number of the      *)
(* last record in the file at that moment (0 for an empty file) plus 1.    *)
(***************************************************************************)
\* the replay of this startup met no error
CleanReplay == ReaderEnded /\ outErrors = <<>> /\ err = "nil"

\* the sequence number of the last record in the file, 0 when there is none
LastSeqOf(data) ==
    LET ls == LinesOf(data) IN IF Len(ls) = 0 THEN 0 ELSE SeqOfLine(ls[Len(ls)])

C5_NextSequence ==
    [][wpc = "write" /\ wpc' = "range" /\ CleanReplay =>
           SeqOfLine(ScanText(SubSeq(file', Len(file) + 1, Len(file')), 1))
               = LastSeqOf(file) + 1]_vars

(***************************************************************************)
(* C7: when an append fails, the writer goroutine puts that error on the   *)
(* Err() channel once, does not retry, and appends nothing more to the     *)
(* file for the rest of the process lifetime, whatever is queued.          *)
(***************************************************************************)
C7_FailStop ==
    /\ [](errors # <<>> => errors = <<"write">> /\ wpc = "stopped")
    /\ [][errors # <<>> /\ errors' # <<>> => file' = file]_vars

C7_Witness ==
    /\ errors = <<"write">>
    /\ Len(events) = 2
    /\ \A p \in Procs : pc[p] = "done"

(***************************************************************************)
(* C8: Get(k) returns the value of the most recent Put(k, v) when no       *)
(* Delete(k) followed it, and ErrNoSuchKey when k was never put or its     *)
(* most recent mutation was a Delete.                                      *)
(***************************************************************************)
ExpectedGet(k) ==
    IF k \in DOMAIN lastOp /\ lastOp[k].op = "put"
    THEN [value |-> lastOp[k].value, err |-> "nil"]
    ELSE [value |-> <<>>, err |-> "ErrNoSuchKey"]

C8_GetReturnsLastPut ==
    [][\A p \in Procs :
           pc[p] = "rlocked" /\ pc'[p] = "stored" => ret'[p] = ExpectedGet(req[p].key)]_vars

C8_Witness ==
    \E p \in Procs :
        /\ pc[p] = "done"
        /\ req[p].op = "get"
        /\ ret[p].err = "ErrNoSuchKey"
        /\ req[p].key \in DOMAIN lastOp
        /\ lastOp[req[p].key].op = "delete"
        /\ \E q \in Procs : req[q].op = "put" /\ req[q].key = req[p].key /\ pc[q] = "done"

(***************************************************************************)
(* C9: at most one goroutine is inside a map mutation, and while one is,   *)
(* no goroutine is inside Get's map read; several Get reads may be inside  *)
(* at the same time.                                                       *)
(***************************************************************************)
InWrite == {p \in Procs : pc[p] = "locked"}
InRead == {p \in Procs : pc[p] = "rlocked"}

C9_ReaderWriterExclusion ==
    /\ Cardinality(InWrite) <= 1
    /\ InWrite # {} => InRead = {}

C9_Witness == Cardinality(InRead) >= 2 /\ \E p \in Procs : pc[p] = "lock"

(***************************************************************************)
(* C10: Puts on distinct keys that run concurrently are all kept: once     *)
(* such a Put has returned, the map holds its value and a Get of its key   *)
(* returns it.                                                             *)
(***************************************************************************)
\* p's Put has returned and no other request writes p's key
OnlyPutOn(p) ==
    /\ req[p].op = "put"
    /\ pc[p] \in {"stored", "done"}
    /\ \A q \in Procs \ {p} : req[q].op \in {"put", "delete"} => req[q].key # req[p].key

C10_NoLostPut ==
    /\ [](\A p \in Procs :
              OnlyPutOn(p) => req[p].key \in DOMAIN m /\ m[req[p].key] = req[p].value)
    /\ [][\A p, q \in Procs :
              OnlyPutOn(p) /\ req[q].key = req[p].key /\ pc[q] = "rlocked"
                  /\ pc'[q] = "stored"
              => ret'[q] = [value |-> req[p].value, err |-> "nil"]]_vars

C10_Witness ==
    /\ OnlyPutOn(1)
    /\ OnlyPutOn(2)
    /\ pc[3] = "done"
    /\ req[3].op = "get"
    /\ ret[3] = [value |-> req[2].value, err |-> "nil"]

(***************************************************************************)
(* C11: Store.Delete(k) on an absent key returns nil and leaves the whole  *)
(* mapping unchanged; on a present key it removes k only and leaves every  *)
(* other key with its value.                                               *)
(***************************************************************************)
C11_DeleteFrame ==
    [][\A p \in Procs :
           pc[p] = "locked" /\ pc'[p] = "stored" /\ req[p].op = "delete" =>
               /\ mpc' = mpc
               /\ DOMAIN m' = (DOMAIN m) \ {req[p].key}
               /\ \A k \in DOMAIN m' : m'[k] = m[k]
               /\ req[p].key \notin DOMAIN m => m' = m]_vars

C11_Witness ==
    /\ \A p \in Procs : pc[p] = "done"
    /\ req[1] = [op |-> "put", key |-> <<"a">>, value |-> <<"x">>]
    /\ req[2] = [op |-> "put", key |-> <<"b">>, value |-> <<"y">>]
    /\ req[3] = [op |-> "delete", key |-> <<"a">>, value |-> <<>>]
    /\ m = mapPut(EmptyMap, <<"b">>, <<"y">>)

StoreReturned(p) == pc[p] = "stored" /\ req[p].op \in {"put", "delete"}

\* p has applied its mutation and then enqueued its intent
Enqueued(p) == pc[p] = "done" /\ req[p].op \in {"put", "delete"}

C13_EnqueueAfterStore ==
    /\ [][accepted' # accepted /\ accepted' # <<>> =>
             \E p \in Procs :
                 /\ StoreReturned(p)
                 /\ Enqueued(p)'
                 /\ accepted' = Append(accepted, intentOf(req[p]))]_vars
    /\ [](wpc # "none" =>
             LET recs == CompleteLines(Appended) IN
             \A i \in 1..Len(recs) :
                 /\ Decodes(recs[i])
                 /\ Cardinality({j \in 1..Len(recs) :
                                     SameIntent(DecodeLine(recs[j]), DecodeLine(recs[i]))})
                        <= Cardinality({p \in Procs :
                                           /\ Enqueued(p)
                                           /\ SameIntent(DecodeLine(recs[i]),
                                                         intentOf(req[p]))}))

C13_Witness ==
    /\ Len(CompleteLines(Appended)) = 2
    /\ Enqueued(1)
    /\ Enqueued(2)
    /\ StoreReturned(3)
    /\ req[1].op = "put"
    /\ req[2].op = "delete"

(***************************************************************************)
(* C14: when the replay of InitializeTransactionLog ends with an error,    *)
(* Run is not called: the writer goroutine is started only if replay       *)
(* finished without error.                                                 *)
(***************************************************************************)
C14_RunOnlyAfterCleanReplay == err # "nil" => wpc = "none"

(***************************************************************************)
(* C14, amended: when the replay loop ends with an error, Run is still     *)
(* called and starts the writer goroutine, but InitializeTransactionLog    *)
(* returns the error and main exits before a request is served: no intent  *)
(* is enqueued and no record is appended in that process lifetime.         *)
(***************************************************************************)
C14_NoAppendAfterFailedReplay ==
    err # "nil" =>
        /\ mpc \in {"run", "ret", "exited"}
        /\ wpc \in {"none", "range"}
        /\ events = <<>>
        /\ accepted = <<>>
        /\ Len(file) = bootLen
        /\ mpc \in {"ret", "exited"} /\ rpc # "none" => wpc = "range"

C14_Witness ==
    /\ mpc = "exited"
    /\ err = "parse"
    /\ wpc = "range"
    /\ file # <<>>
    /\ Len(file) = bootLen

(***************************************************************************)
(* C15: startup replay leaves the log file as it found it: from opening    *)
(* the file until the replay loop ends no record is appended, since        *)
(* replayed events go to the Store and never to WritePut/WriteDelete, and  *)
(* the writer goroutine does not exist yet.                                *)
(***************************************************************************)
\* main is in InitializeTransactionLog, before transact.Run()
InReplay == mpc \in {"new", "replay", "run"}

C15_ReplayLeavesFile ==
    /\ [](InReplay => /\ wpc = "none"
                      /\ events = <<>>
                      /\ accepted = <<>>
                      /\ Len(file) = bootLen)
    /\ [][InReplay => file' = file /\ events' = <<>>]_vars

C15_Witness ==
    /\ mpc = "run"
    /\ err = "nil"
    /\ Len(yielded) = 2
    /\ Len(LinesOf(file)) = 2
    /\ m # EmptyMap
    /\ restarts = 1

(***************************************************************************)
(* C16: if the process crashes at any point and is restarted, the Store    *)
(* rebuilt by replay equals the result of applying, in enqueue order,      *)
(* exactly the intents whose records had been appended before the crash,   *)
(* a prefix of the enqueued intents; only mutations not yet appended are   *)
(* lost.  The intent whose append failed part-way may count either way.    *)
(***************************************************************************)
\* replay has ended and no request has been served since the restart
Rebuilt ==
    /\ restarts > 0
    /\ mpc = "serving"
    /\ \A p \in Procs : pc[p] \in {"idle", "gone"}

C16_CrashRecovery ==
    Rebuilt =>
        \/ m = MappingOf(durable.sure)
        \/ m = MappingOf(durable.sure \o durable.maybe)

(***************************************************************************)
(* C17: under weak fairness of the writer goroutine, with no append        *)
(* failure and no crash, every intent accepted by WritePut/WriteDelete is  *)
(* eventually appended to the log file, exactly once.                      *)
(***************************************************************************)
\* the i-th accepted intent is the i-th record of the file
AppendedAt(i) ==
    LET recs == CompleteLines(Appended) IN
    /\ Len(accepted) >= i
    /\ Len(recs) >= i
    /\ Decodes(recs[i])
    /\ SameIntent(DecodeLine(recs[i]), accepted[i])

\* no record without an accepted intent: with AppendedAt for every accepted
\* intent, each intent has one record
NoExtraRecord == Len(CompleteLines(Appended)) <= Len(accepted)

C17_EventuallyAppended ==
    \A i \in 1..MaxRequests :
        (Len(accepted) >= i) ~> [](AppendedAt(i) /\ NoExtraRecord)

C17_Witness ==
    /\ Len(accepted) = 3
    /\ \A i \in 1..3 : AppendedAt(i)
    /\ Len(CompleteLines(file)) = 3
    /\ accepted[1] = accepted[3]

(***************************************************************************)
(* C18: after Run, a WritePut/WriteDelete call returns without waiting     *)
(* for its record to be appended whenever fewer than 16 intents are        *)
(* pending; it blocks only when 16 are pending, and a caller blocked on    *)
(* the full queue can go on as soon as the writer goroutine has taken one  *)
(* intent; the number of pending intents never exceeds 16.                 *)
(***************************************************************************)
\* p is in its call of WritePut / WriteDelete
Sending(p) == StoreReturned(p) /\ wpc # "none" /\ Alive

\* p's send on the channel can be taken now
CanReturn(p) == ENABLED (WritePut(p) \/ WriteDelete(p))

C18_QueueBlocksOnlyWhenFull ==
    /\ [](Len(events) <= 16)
    /\ [](\A p \in Procs : Sending(p) => (CanReturn(p) <=> Len(events) < 16))
    /\ [][\A p \in Procs :
              Sending(p) /\ Enqueued(p)' =>
                  /\ file' = file
                  /\ events' = Append(events, intentOf(req[p]))
                  /\ Len(events') <= 16]_vars
    /\ [][Len(events) = 16 /\ events' # events =>
              /\ Len(events') = 15
              /\ wpc = "range" /\ wpc' = "write"
              /\ \A p \in Procs : Sending(p) => Sending(p)']_vars

C18_Witness ==
    /\ Len(events) = 16
    /\ wpc = "write"
    /\ file = <<>>
    /\ \A p \in Procs : Enqueued(p)

(***************************************************************************)
(* C19: after the writer goroutine has stopped on an append error, the     *)
(* Store keeps what was applied, and every later mutating request, any     *)
(* number of them, still applies its mutation and its WritePut or          *)
(* WriteDelete call returns: the request completes, only durability is     *)
(* lost.                                                                   *)
(***************************************************************************)
C19_RequestsCompleteAfterStop ==
    /\ [](wpc = "stopped" => \A p \in Procs : Sending(p) => CanReturn(p))
    /\ [][wpc = "write" /\ wpc' = "stopped" => m' = m]_vars

(***************************************************************************)
(* C20: for every finite log file, well-formed or corrupt, the replay of   *)
(* InitializeTransactionLog terminates: the replay loop exits, and the     *)
(* ReadEvents goroutine finishes with both its channels closed and is      *)
(* never left blocked on a send; every event yielded before the loop       *)
(* exits has been applied to the Store.                                    *)
(***************************************************************************)
\* the replay loop has exited
LoopExited == mpc \in {"run", "ret", "serving", "exited"} /\ rpc # "none"

\* the process serves and the reader goroutine has run both deferred closes
ReplayOver ==
    /\ mpc = "serving"
    /\ rpc = "done"
    /\ outErrorsClosed
    /\ outEventsClosed

\* some goroutine of the startup can take a step; the reader's scan step
\* is given by its guard
CanStep ==
    \/ Alive /\ rpc = "scan"
    \/ ENABLED (ReaderCloseErrors \/ ReaderCloseEvents)
    \/ ENABLED (ReplayRecvError \/ ReplayRecvEvent)
    \/ ENABLED (Run \/ InitReturn)

\* nothing is left to run: main has left InitializeTransactionLog and has
\* exited (log.Fatal ends the process), or serves with the reader finished
Settled == LoopExited /\ (mpc = "exited" \/ ReplayOver)

C20_ReplayTerminates ==
    rpc # "none" =>
        /\ Settled \/ CanStep
        /\ LoopExited => ReaderEnded /\ Len(outErrors) <= 1
        /\ LoopExited => m = MappingOf(yielded)

=============================================================================
